---- MODULE Spec2Model ----
(***************************************************************************)
(* The API client of the OKR Tree front end (src/lib/api.js) with the      *)
(* login / logout flows that own the auth_token storage slot               *)
(* (src/unnamed/part_001, src/components/Header.js).                       *)
(*                                                                         *)
(* Specifications:                                                         *)
(*   Spec      the retry-wrapped operations (login, getDepartments,        *)
(*             getUsers) running concurrently with login / logout;         *)
(*   SpecApi   every operation of the api object;                          *)
(*   SpecRetry several retry-wrapped calls at once, with fairness;         *)
(*   SpecForm  the OKRNode's fetchUsers and fetchFormData;                 *)
(*   SpecUI    the mutating handlers of the OKRNode and the tasks page;    *)
(*   SpecTasks the OKRNode's toggleTasks and fetchTasks;                   *)
(*   SpecPage  overlapping handleUpdateTask invocations on the tasks page; *)
(*   SpecOKR   createOKR / updateOKR applied to every payload of a bounded *)
(*             set, from the payload to the body put on the wire.          *)
(***************************************************************************)
EXTENDS Integers, Sequences, FiniteSets, TLC

\* Number of API calls that can be in flight at the same time.
MaxCalls == 1
\* Longest assigned_users list of an OKR payload.
MaxUsers == 2
\* Number of fetchTasks calls one OKRNode starts.
MaxFetches == 3
\* Number of handleUpdateTask invocations on the tasks page.
MaxUpdates == 2

\* apiCallWithRetry's default parameters.
retryCount == 3
initialDelayMs == 1000

VARIABLES
    auth_token,       \* localStorage slot 'auth_token'
    isAuthenticated,  \* React state of the page (useState(false), checkAuth)
    reloadPending,    \* window.location.reload() was called, not yet committed
    calls,            \* the API calls of the page, by call slot
    okrData,          \* the payload handed to createOKR / updateOKR
    okrCall,          \* the createOKR / updateOKR call
    node,             \* React state of an OKRNode component, and its data prop
    page,             \* React state of the tasks page
    alerts,           \* the messages window.alert has shown, in order
    handlers          \* position of each async handler / effect of the UI

uiVars == <<node, page, alerts, handlers>>

vars == <<auth_token, isAuthenticated, reloadPending, calls, okrData, okrCall, uiVars>>

(***************************************************************************)
(* JavaScript values.  A value is a record tagged with its type; objects   *)
(* are functions from their keys to values.                                *)
(***************************************************************************)
Undefined == [t |-> "undefined"]
Null == [t |-> "null"]
Str(s) == [t |-> "string", v |-> s]
Num(n) == [t |-> "number", v |-> n]
Bool(b) == [t |-> "boolean", v |-> b]
Arr(a) == [t |-> "array", v |-> a]
Obj(o) == [t |-> "object", v |-> o]

\* ToBoolean: what `if (x)`, `x ? a : b` and `x || y` test.
Truthy(x) ==
    CASE x.t = "undefined" -> FALSE
      [] x.t = "null" -> FALSE
      [] x.t = "string" -> x.v # ""
      [] x.t = "number" -> x.v # 0
      [] x.t = "boolean" -> x.v
      [] OTHER -> TRUE

\* a || b
Or(a, b) == IF Truthy(a) THEN a ELSE b

\* obj.k : undefined when obj has no such key
Get(obj, k) == IF k \in DOMAIN obj THEN obj[k] ELSE Undefined

\* { ...base, ...over }
Merge(base, over) ==
    [k \in DOMAIN base \cup DOMAIN over |->
        IF k \in DOMAIN over THEN over[k] ELSE base[k]]

\* delete obj.k
Delete(obj, k) == [x \in DOMAIN obj \ {k} |-> obj[x]]

\* JSON.stringify of a request body, as the backend decodes it: a key whose
\* value is undefined is not written.
JsonBody(obj) ==
    LET kept == {k \in DOMAIN obj : obj[k].t # "undefined"}
    IN  [k \in kept |-> obj[k]]

EmptyObject == [k \in {} |-> Undefined]

(***************************************************************************)
(* The axios instance and its request interceptor.                         *)
(***************************************************************************)
Url(prefix, ids, suffix) == [prefix |-> prefix, ids |-> ids, suffix |-> suffix]

\* axios.create({ headers: { 'Content-Type': 'application/json' } })
DefaultHeaders == [h \in {"Content-Type"} |-> Str("application/json")]

\* The header value `Bearer ${token}`: the scheme followed by the token.
Bearer(token) == [t |-> "string", v |-> <<"Bearer", token.v>>]

\* Interceptor that never attaches the token.
RequestInterceptorOff(config, token) == config

\* apiClient.interceptors.request.use: runs for every request dispatched.
RequestInterceptor(config, token) ==
    IF Truthy(token)
    THEN [config EXCEPT !.headers =
            Merge(config.headers, [h \in {"Authorization"} |-> Bearer(token)])]
    ELSE config

\* The request config axios hands to the adapter.
Request(method, url, body, token) ==
    RequestInterceptor(
        [method |-> method, url |-> url, body |-> body, headers |-> DefaultHeaders],
        token)

NoRequest == [method |-> "none"]

(***************************************************************************)
(* Outcomes of one HTTP attempt.                                           *)
(***************************************************************************)
\* Errors axios rejects with.  error.code is a string, or undefined where
\* axios sets none; status is the HTTP status of error.response (0: none).
NetworkError == [code |-> Str("ERR_NETWORK"), status |-> 0]
TimeoutError == [code |-> Str("ECONNABORTED"), status |-> 0]
HttpError == [code |-> Str("ERR_BAD_REQUEST"), status |-> 404]
UncodedError == [code |-> Undefined, status |-> 500]
Errors == {NetworkError, TimeoutError, HttpError, UncodedError}

\* response.data of a successful attempt: the backend owns its shape.
ResponseData == {Null, Arr(<<>>), Arr(<<Num(1)>>)}

(***************************************************************************)
(* apiCallWithRetry                                                        *)
(***************************************************************************)
\* Retry test that lets every coded error through, HTTP errors included.
ShouldRetryAnyCode(error) == Truthy(error.code)

\* The negation of the test that rethrows at once:
\*   !error.code || (code !== 'ERR_NETWORK' && code !== 'ECONNABORTED')
ShouldRetry(error) ==
    ~ (\/ ~Truthy(error.code)
       \/ (error.code # Str("ERR_NETWORK") /\ error.code # Str("ECONNABORTED")))

Pow2(n) == IF n = 0 THEN 1 ELSE IF n = 1 THEN 2 ELSE IF n = 2 THEN 4 ELSE 8

\* const delayMs = initialDelayMs * Math.pow(2, attempt)
DelayMs(attempt) == initialDelayMs * Pow2(attempt)

\* Loop test off by one: a fourth attempt.
LoopContinuesOffByOne(attempt) == attempt <= retryCount

\* The loop condition: attempt < retryCount
LoopContinues(attempt) == attempt < retryCount

\* throw lastError, after the loop
ThrownAfterLoop(call) == call.lastError

(***************************************************************************)
(* The retry-wrapped operations of the api object.                         *)
(***************************************************************************)
RetriedOps == {"login", "getDepartments", "getUsers"}

Method(op) == IF op = "login" THEN "POST" ELSE "GET"

Path(op) ==
    CASE op = "login" -> Url("/api/token/", <<>>, "")
      [] op = "getDepartments" -> Url("/api/departments/", <<>>, "")
      [] op = "getUsers" -> Url("/api/users/", <<>>, "")

\* The credentials object handed to login.
Credentials == [username |-> Str("user"), password |-> Str("secret")]

Body(op) == IF op = "login" THEN Obj(Credentials) ELSE Undefined

Returned(value) == [kind |-> "returned", value |-> value]
Raised(error) == [kind |-> "raised", value |-> error]
Pending == [kind |-> "pending"]

\* Returns the response in place of response.data.
OnSuccessWholeResponse(op, data) == Returned(Obj([data |-> data]))

\* What the operation does with the response it awaited: return
\* response.data; response.data || [] in getDepartments and getUsers; true in
\* checkBackendConnection.
OnSuccess(op, data) ==
    CASE op \in {"getDepartments", "getUsers"} -> Returned(Or(data, Arr(<<>>)))
      [] op = "checkBackendConnection" -> Returned(Bool(TRUE))
      [] OTHER -> Returned(data)

\* Catch block that rethrows for every operation.
OnFailureRethrow(op, error) == Raised(error)

\* Catch block that substitutes the empty list in every operation.
OnFailureSwallow(op, error) == Returned(Arr(<<>>))

\* The operation's catch block: throw error; return [] in getDepartments and
\* getUsers; return false in checkBackendConnection.
OnFailure(op, error) ==
    CASE op \in {"getDepartments", "getUsers"} -> Returned(Arr(<<>>))
      [] op = "checkBackendConnection" -> Returned(Bool(FALSE))
      [] OTHER -> Raised(error)

(***************************************************************************)
(* createOKR / updateOKR: the field transforms.                            *)
(***************************************************************************)
\* okrData.assigned_users.map(user => user.user_id)
MapUserId(users) == Arr([i \in 1..Len(users.v) |-> Get(users.v[i].v, "user_id")])

\* okrData.assigned_users.find(user => user.is_primary)?.user_id
FindPrimaryUserId(users) ==
    LET hits == {i \in 1..Len(users.v) : Truthy(Get(users.v[i].v, "is_primary"))}
    IN  IF hits = {} THEN Undefined
        ELSE Get(users.v[CHOOSE i \in hits : \A j \in hits : i <= j].v, "user_id")

\* assigned_user_ids that falls back to the ids the caller supplied.
UpdateAssignedUserIdsKeepsGiven(data) ==
    IF Truthy(Get(data, "assigned_users"))
    THEN MapUserId(Get(data, "assigned_users"))
    ELSE Or(Get(data, "assigned_user_ids"), Arr(<<>>))

\* updateOKR: assigned_user_ids
UpdateAssignedUserIds(data) ==
    IF Truthy(Get(data, "assigned_users"))
    THEN MapUserId(Get(data, "assigned_users"))
    ELSE Arr(<<>>)

\* Primary taken from the head of the list, whatever its is_primary.
UpdatePrimaryUserIdFirstEntry(data) ==
    IF Truthy(Get(data, "assigned_users")) /\ Len(Get(data, "assigned_users").v) > 0
    THEN Get(Get(data, "assigned_users").v[1].v, "user_id")
    ELSE Undefined

\* updateOKR: primary_user_id
UpdatePrimaryUserId(data) ==
    IF Truthy(Get(data, "assigned_users"))
    THEN FindPrimaryUserId(Get(data, "assigned_users"))
    ELSE Null

\* business_unit_ids without the business_units fallback (as createOKR has it).
UpdateBusinessUnitIdsNoFallback(data) ==
    Or(Get(data, "business_unit_ids"), Arr(<<>>))

\* updateOKR: business_unit_ids
UpdateBusinessUnitIds(data) ==
    Or(Or(Get(data, "business_unit_ids"), Get(data, "business_units")), Arr(<<>>))

\* updateOKR: the two `delete`s
UpdateStrip(t) ==
    LET t1 == IF Truthy(Get(t, "assigned_users")) THEN Delete(t, "assigned_users") ELSE t
    IN  IF Truthy(Get(t1, "business_units")) /\ Truthy(Get(t1, "business_unit_ids"))
        THEN Delete(t1, "business_units")
        ELSE t1

\* updateOKR: transformedData
UpdateTransform(data) ==
    UpdateStrip(
        Merge(data,
              [assigned_user_ids |-> UpdateAssignedUserIds(data),
               primary_user_id |-> UpdatePrimaryUserId(data),
               business_unit_ids |-> UpdateBusinessUnitIds(data)]))

\* createOKR: transformedData
CreateTransform(data) ==
    LET t == Merge(data,
                   [name |-> Get(data, "title"),
                    assigned_user_ids |-> Or(Get(data, "assigned_user_ids"), Arr(<<>>)),
                    primary_user_id |-> Or(Get(data, "primary_user_id"), Null),
                    business_unit_ids |-> Or(Get(data, "business_unit_ids"), Arr(<<>>))])
    IN  IF Truthy(Get(t, "title")) THEN Delete(t, "title") ELSE t

(***************************************************************************)
(* The operations of the api object that call apiClient directly.          *)
(***************************************************************************)
NoArgOps ==
    {"checkBackendConnection", "getBusinessUnits", "createBusinessUnit", "getOKRs",
     "createOKR", "getTasks", "createTask", "getTaskChallenges", "createTaskChallenge"}

OneArgOps ==
    {"getBusinessUnit", "updateBusinessUnit", "deleteBusinessUnit",
     "getOKRBusinessUnits", "assignBusinessUnitsToOKR", "getUser", "getOKR",
     "updateOKR", "deleteOKR", "getChildOKRs", "getOKRAssignedUsers", "addUserToOKR",
     "getTask", "updateTask", "deleteTask", "getOKRTasks", "getUserOKRs",
     "getUserTasks", "getTaskChallenge", "updateTaskChallenge",
     "deleteTaskChallenge", "getTaskChallengesByTask"}

TwoArgOps == {"removeUserFromOKR", "setPrimaryUserForOKR"}

PlainOps == NoArgOps \cup OneArgOps \cup TwoArgOps

\* The ids an operation is called with (okrId, taskId, userId, ...).
ArgIds == {5, 42}

ArgsOf(op) ==
    IF op \in NoArgOps THEN {<<>>}
    ELSE IF op \in OneArgOps THEN [1..1 -> ArgIds]
    ELSE [1..2 -> ArgIds]

PlainMethod(op) ==
    CASE op \in {"createBusinessUnit", "assignBusinessUnitsToOKR", "createOKR",
                 "addUserToOKR", "setPrimaryUserForOKR", "createTask",
                 "createTaskChallenge"} -> "POST"
      [] op \in {"updateBusinessUnit", "updateOKR", "updateTask",
                 "updateTaskChallenge"} -> "PUT"
      [] op \in {"deleteBusinessUnit", "deleteOKR", "removeUserFromOKR", "deleteTask",
                 "deleteTaskChallenge"} -> "DELETE"
      [] OTHER -> "GET"

\* Request paths with the two task queries exchanged.
PlainPathQueriesSwapped(op, args) ==
    CASE op = "getOKRTasks" -> Url("/api/tasks/?assigned_to=", args, "")
      [] op = "getUserTasks" -> Url("/api/tasks/?linked_to_okr=", args, "")
      [] OTHER -> Url("/api/", args, "")

\* The request path; the ids fill the template's ${...} places in order.
PlainPath(op, args) ==
    CASE op = "checkBackendConnection" -> Url("/api/", <<>>, "")
      [] op \in {"getBusinessUnits", "createBusinessUnit"} ->
            Url("/api/business-units/", <<>>, "")
      [] op \in {"getBusinessUnit", "updateBusinessUnit", "deleteBusinessUnit"} ->
            Url("/api/business-units/", args, "/")
      [] op = "getOKRBusinessUnits" -> Url("/api/okrs/", args, "/business_units/")
      [] op = "assignBusinessUnitsToOKR" ->
            Url("/api/okrs/", args, "/assign_business_units/")
      [] op = "getUser" -> Url("/api/users/", args, "/")
      [] op \in {"getOKRs", "createOKR"} -> Url("/api/okrs/", <<>>, "")
      [] op \in {"getOKR", "updateOKR", "deleteOKR"} -> Url("/api/okrs/", args, "/")
      [] op = "getChildOKRs" -> Url("/api/okrs/?parent_okr=", args, "")
      [] op = "getOKRAssignedUsers" -> Url("/api/okrs/", args, "/assigned_users/")
      [] op = "addUserToOKR" -> Url("/api/okrs/", args, "/assign_user/")
      [] op = "removeUserFromOKR" -> Url("/api/okrs/${okrId}/remove_user/", args, "/")
      [] op = "setPrimaryUserForOKR" ->
            Url("/api/okrs/", <<args[1]>>, "/set_primary_user/")
      [] op \in {"getTasks", "createTask"} -> Url("/api/tasks/", <<>>, "")
      [] op \in {"getTask", "updateTask", "deleteTask"} -> Url("/api/tasks/", args, "/")
      [] op = "getOKRTasks" -> Url("/api/tasks/?linked_to_okr=", args, "")
      [] op = "getUserOKRs" -> Url("/api/okrs/user/", args, "/")
      [] op = "getUserTasks" -> Url("/api/tasks/?assigned_to=", args, "")
      [] op \in {"getTaskChallenges", "createTaskChallenge"} ->
            Url("/api/task-challenges/", <<>>, "")
      [] op \in {"getTaskChallenge", "updateTaskChallenge", "deleteTaskChallenge"} ->
            Url("/api/task-challenges/", args, "/")
      [] op = "getTaskChallengesByTask" ->
            Url("/api/task-challenges/by_task/?task_id=", args, "")

\* The record a caller hands to a create / update / assign operation.
SampleData == [title |-> Str("Grow revenue"), description |-> Str("Q3 goal")]

\* The data argument of apiClient.post / apiClient.put.
PlainBody(op, args) ==
    CASE PlainMethod(op) \in {"GET", "DELETE"} -> Undefined
      [] op = "createOKR" -> Obj(JsonBody(CreateTransform(SampleData)))
      [] op = "updateOKR" -> Obj(JsonBody(UpdateTransform(SampleData)))
      [] op = "setPrimaryUserForOKR" -> Obj([user_id |-> Num(args[2])])
      [] op = "assignBusinessUnitsToOKR" -> Arr(<<Num(7)>>)
      [] OTHER -> Obj(SampleData)

(***************************************************************************)
(* A call: the operation, the position of its async function, the locals   *)
(* of apiCallWithRetry (attempt, lastError), the request last dispatched   *)
(* and the running timer; nreq, errs and waits record what the call has    *)
(* done so far (requests dispatched, the error of each failed attempt, the *)
(* delay of each setTimeout); retry is how apiCallWithRetry ended (for an   *)
(* operation that calls apiClient directly: how that awaited call ended)   *)
(* and result how the operation ended.                                     *)
(***************************************************************************)
CallIds == 1..MaxCalls

IdleCall ==
    [op |-> "none", args |-> <<>>, pc |-> "idle", attempt |-> 0, lastError |-> Undefined,
     request |-> NoRequest, timer |-> 0, nreq |-> 0, errs |-> <<>>,
     waits |-> <<>>, retry |-> Pending, result |-> Pending]

MethodOf(call) ==
    IF call.op \in RetriedOps THEN Method(call.op) ELSE PlainMethod(call.op)

PathOf(call) ==
    IF call.op \in RetriedOps THEN Path(call.op) ELSE PlainPath(call.op, call.args)

BodyOf(call) ==
    IF call.op \in RetriedOps THEN Body(call.op) ELSE PlainBody(call.op, call.args)

\* apiCall(): apiClient.get / post / put / delete, through the request
\* interceptor.
Dispatch(call, token) ==
    [call EXCEPT !.pc = "inflight",
                 !.request = Request(MethodOf(call), PathOf(call), BodyOf(call), token),
                 !.nreq = call.nreq + 1]

\* An end that raises the error of an earlier attempt although the last
\* attempt succeeded.
FinishSurfacesEarlierError(call, retry) ==
    LET result == IF retry.kind = "returned" /\ call.errs = <<>>
                  THEN OnSuccess(call.op, retry.value)
                  ELSE IF retry.kind = "returned"
                  THEN Raised(call.lastError)
                  ELSE OnFailure(call.op, retry.value)
    IN  [call EXCEPT !.pc = result.kind, !.retry = retry, !.result = result,
                     !.timer = 0]

\* The call's end, from the way apiCallWithRetry ended.
Finish(call, retry) ==
    LET result == IF retry.kind = "returned"
                  THEN OnSuccess(call.op, retry.value)
                  ELSE OnFailure(call.op, retry.value)
    IN  [call EXCEPT !.pc = result.kind, !.retry = retry, !.result = result,
                     !.timer = 0]

\* Catch block that starts the next attempt at once, with no backoff.
CaughtWithoutBackoff(call, error) ==
    LET c1 == [call EXCEPT !.lastError = error, !.errs = Append(call.errs, error),
                           !.attempt = call.attempt + 1]
    IN  IF ShouldRetry(error) /\ LoopContinues(c1.attempt)
        THEN Dispatch(c1, auth_token)
        ELSE Finish(c1, Raised(error))

\* The catch block of the loop, on the error of the attempt in flight.
Caught(call, error) ==
    LET c1 == [call EXCEPT !.lastError = error, !.errs = Append(call.errs, error)]
    IN  IF ~ShouldRetry(error)
        THEN Finish(c1, Raised(error))
        ELSE [c1 EXCEPT !.pc = "backoff",
                        !.timer = DelayMs(call.attempt),
                        !.waits = Append(call.waits, DelayMs(call.attempt))]

\* Every operation's failure handled by the retry loop.
FailedRetriesAll(call, error) == Caught(call, error)

\* The attempt in flight failed: the catch block of the retry loop for a
\* retry-wrapped operation, the operation's own catch block otherwise.
Failed(call, error) ==
    IF call.op \in RetriedOps
    THEN Caught(call, error)
    ELSE Finish([call EXCEPT !.errs = Append(call.errs, error)], Raised(error))

\* Loop that waits again, instead of throwing, once the attempts are used up.
ResumedWaitsAgain(call, token) ==
    IF LoopContinues(call.attempt + 1)
    THEN Dispatch([call EXCEPT !.attempt = call.attempt + 1, !.timer = 0], token)
    ELSE call

\* The timer's resolve: attempt++, then the loop test.
Resumed(call, token) ==
    LET c1 == [call EXCEPT !.attempt = call.attempt + 1, !.timer = 0]
    IN  IF LoopContinues(c1.attempt)
        THEN Dispatch(c1, token)
        ELSE Finish(c1, Raised(ThrownAfterLoop(c1)))

(***************************************************************************)
(* Actions of Spec.                                                        *)
(***************************************************************************)
okrIdle == [op |-> "none", pc |-> "idle", request |-> NoRequest, result |-> Pending]

\* The data prop of the OKRNode: the OKR the node shows.
NodeData ==
    [okr_id |-> Num(5), name |-> Str("Old name"), description |-> Str("Q3 goal"),
     parent_okr_id |-> Null, status |-> Str("In Progress"),
     progress_percent |-> Num(40), due_date |-> Str("2025-09-30"),
     assumptions |-> Str("none"), isMeasurable |-> Bool(TRUE)]

\* The useState initial values of OKRNode.
NodeInit ==
    [isExpanded |-> FALSE, showTasks |-> FALSE, tasks |-> Arr(<<>>),
     isTaskLoading |-> FALSE, showEditOKRForm |-> FALSE, showEditTaskForm |-> FALSE,
     selectedTask |-> Null, users |-> Arr(<<>>), departments |-> Arr(<<>>),
     okrs |-> Arr(<<>>), businessUnits |-> Arr(<<>>), assignedUsers |-> Arr(<<>>),
     isLoadingUsers |-> FALSE, data |-> NodeData]

\* The useState initial values of the tasks page (isAuthenticated apart).
PageInit == [tasks |-> Arr(<<>>), loading |-> TRUE]

HandlerNames ==
    {"fetchUsers", "fetchFormData", "handleEditOKR", "handleEditTask",
     "handleContinueIteration", "handleUpdateTask"}

\* No component mounted yet, no handler running, nothing alerted.
UiIdle ==
    /\ node = NodeInit
    /\ page = PageInit
    /\ alerts = <<>>
    /\ handlers = [h \in HandlerNames |-> "idle"]

Init ==
    /\ auth_token \in {Null, Str("mock_token")}
    /\ isAuthenticated = Truthy(auth_token)
    /\ reloadPending = FALSE
    /\ calls = [c \in CallIds |-> IdleCall]
    /\ okrData = EmptyObject
    /\ okrCall = okrIdle
    /\ UiIdle

\* A caller invokes api.login / api.getDepartments / api.getUsers: the
\* function runs up to its first await, with the first attempt dispatched.
Invoke(c, op) ==
    /\ calls[c].pc = "idle"
    /\ calls' = [calls EXCEPT ![c] = Dispatch([IdleCall EXCEPT !.op = op], auth_token)]
    /\ UNCHANGED <<auth_token, isAuthenticated, reloadPending, okrData, okrCall, uiVars>>

\* A caller invokes an operation that calls apiClient directly.
InvokePlain(c, op, args) ==
    /\ calls[c].pc = "idle"
    /\ calls' = [calls EXCEPT ![c] =
                    Dispatch([IdleCall EXCEPT !.op = op, !.args = args], auth_token)]
    /\ UNCHANGED <<auth_token, isAuthenticated, reloadPending, okrData, okrCall, uiVars>>

\* A successful login that stores a token in the slot.
AttemptSucceedsStoresToken(c, data) ==
    /\ calls[c].pc = "inflight"
    /\ calls' = [calls EXCEPT ![c] = Finish(calls[c], Returned(data))]
    /\ auth_token' = IF calls[c].op = "login" THEN Str("mock_token") ELSE auth_token
    /\ UNCHANGED <<isAuthenticated, reloadPending, okrData, okrCall, uiVars>>

\* The attempt in flight succeeds: return await apiCall().
AttemptSucceeds(c, data) ==
    /\ calls[c].pc = "inflight"
    /\ calls' = [calls EXCEPT ![c] = Finish(calls[c], Returned(data))]
    /\ UNCHANGED <<auth_token, isAuthenticated, reloadPending, okrData, okrCall, uiVars>>

\* The attempt in flight fails.
AttemptFails(c, error) ==
    /\ calls[c].pc = "inflight"
    /\ calls' = [calls EXCEPT ![c] = Failed(calls[c], error)]
    /\ UNCHANGED <<auth_token, isAuthenticated, reloadPending, okrData, okrCall, uiVars>>

\* The backoff timer fires.
TimerFires(c) ==
    /\ calls[c].pc = "backoff"
    /\ calls' = [calls EXCEPT ![c] = Resumed(calls[c], auth_token)]
    /\ UNCHANGED <<auth_token, isAuthenticated, reloadPending, okrData, okrCall, uiVars>>

\* Home.handleLogin, offered by the LoginForm while !isAuthenticated.
HandleLogin ==
    /\ ~isAuthenticated
    /\ ~reloadPending
    /\ auth_token' = Str("mock_token")
    /\ isAuthenticated' = TRUE
    /\ UNCHANGED <<reloadPending, calls, okrData, okrCall, uiVars>>

\* Header.handleLogout, offered while isAuthenticated: the slot is cleared
\* and a reload of the page is requested.
HandleLogout ==
    /\ isAuthenticated
    /\ ~reloadPending
    /\ auth_token' = Null
    /\ reloadPending' = TRUE
    /\ UNCHANGED <<isAuthenticated, calls, okrData, okrCall, uiVars>>

\* The reload commits: the page's calls and state are gone, the new page
\* mounts and checkAuth reads the slot.
PageReload ==
    /\ reloadPending
    /\ reloadPending' = FALSE
    /\ calls' = [c \in CallIds |-> IdleCall]
    /\ isAuthenticated' = Truthy(auth_token)
    /\ node' = NodeInit
    /\ page' = PageInit
    /\ handlers' = [h \in HandlerNames |-> "idle"]
    /\ UNCHANGED <<auth_token, okrData, okrCall, alerts>>

Next ==
    \/ \E c \in CallIds, op \in RetriedOps : Invoke(c, op)
    \/ \E c \in CallIds, data \in ResponseData : AttemptSucceeds(c, data)
    \/ \E c \in CallIds, error \in Errors : AttemptFails(c, error)
    \/ \E c \in CallIds : TimerFires(c)
    \/ HandleLogin
    \/ HandleLogout
    \/ PageReload

Spec == Init /\ [][Next]_vars

(***************************************************************************)
(* SpecApi: every operation of the api object, with the slot left alone.   *)
(***************************************************************************)
ApiErrors == {NetworkError, HttpError}

NextApi ==
    \/ \E c \in CallIds, op \in RetriedOps : Invoke(c, op)
    \/ \E c \in CallIds, op \in PlainOps : \E args \in ArgsOf(op) : InvokePlain(c, op, args)
    \/ \E c \in CallIds, data \in ResponseData : AttemptSucceeds(c, data)
    \/ \E c \in CallIds, error \in ApiErrors : AttemptFails(c, error)
    \/ \E c \in CallIds : TimerFires(c)

SpecApi == Init /\ [][NextApi]_vars

(***************************************************************************)
(* SpecRetry: several retry-wrapped calls running at once on a logged-in   *)
(* page.  Every attempt settles (axios gives up after its 15 s timeout)    *)
(* and every timer set by setTimeout fires.                                *)
(***************************************************************************)
RetryCallIds == 1..(MaxCalls + 1)

RetryErrors == {NetworkError, HttpError}

RetryData == {Arr(<<Num(1)>>)}

InitRetry ==
    /\ auth_token = Str("mock_token")
    /\ isAuthenticated = TRUE
    /\ reloadPending = FALSE
    /\ calls = [c \in RetryCallIds |-> IdleCall]
    /\ okrData = EmptyObject
    /\ okrCall = okrIdle
    /\ UiIdle

AttemptSettles(c) ==
    \/ \E data \in RetryData : AttemptSucceeds(c, data)
    \/ \E error \in RetryErrors : AttemptFails(c, error)

NextRetry ==
    \/ \E c \in RetryCallIds, op \in RetriedOps : Invoke(c, op)
    \/ \E c \in RetryCallIds : AttemptSettles(c)
    \/ \E c \in RetryCallIds : TimerFires(c)

FairRetry ==
    \A c \in RetryCallIds : WF_vars(AttemptSettles(c)) /\ WF_vars(TimerFires(c))

SpecRetry == InitRetry /\ [][NextRetry]_vars /\ FairRetry

(***************************************************************************)
(* SpecForm: an OKRNode on a logged-in page.  The mount effect has started *)
(* fetchUsers; opening the edit form starts fetchFormData.  The call slots *)
(* are the four calls of fetchFormData, by operation, and "fetchUsers".    *)
(***************************************************************************)
FormOps == {"getUsers", "getDepartments", "getOKRs", "getBusinessUnits"}

FormSlots == FormOps \cup {"fetchUsers"}

FormData == {Null, Arr(<<Num(1)>>)}

FormErrors == {NetworkError, HttpError}

\* api[op](...args) up to its first await.
StartCall(op, args, token) ==
    Dispatch([IdleCall EXCEPT !.op = op, !.args = args], token)

\* The mount effect's fetchUsers after its await: setUsers, or the catch.
FetchUsersContinues(n, h, cs) ==
    IF h["fetchUsers"] # "awaiting" \/ cs["fetchUsers"].pc \notin {"returned", "raised"}
    THEN [node |-> n, handlers |-> h]
    ELSE IF cs["fetchUsers"].pc = "raised"
    THEN [node |-> n, handlers |-> [h EXCEPT !["fetchUsers"] = "caught"]]
    ELSE [node |-> [n EXCEPT !.users = cs["fetchUsers"].result.value],
          handlers |-> [h EXCEPT !["fetchUsers"] = "done"]]

\* A loader that sets each piece of state as soon as its own call returns.
FormJoinEager(n, h, cs) ==
    LET got(op, old) == IF cs[op].pc = "returned" THEN cs[op].result.value ELSE old
        done == \A op \in FormOps : cs[op].pc \in {"returned", "raised"}
    IN  IF h["fetchFormData"] # "awaiting"
        THEN [node |-> n, handlers |-> h]
        ELSE [node |-> [n EXCEPT !.users = got("getUsers", n.users),
                                 !.departments = got("getDepartments", n.departments),
                                 !.okrs = got("getOKRs", n.okrs),
                                 !.businessUnits = got("getBusinessUnits", n.businessUnits)],
              handlers |-> IF done THEN [h EXCEPT !["fetchFormData"] = "done"] ELSE h]

\* fetchFormData after await Promise.all([...]): the promise rejects with the
\* first rejection and resolves once all four calls have returned; the four
\* setState calls follow the resolve, the catch block only logs.
FormJoin(n, h, cs) ==
    IF h["fetchFormData"] # "awaiting"
    THEN [node |-> n, handlers |-> h]
    ELSE IF \E op \in FormOps : cs[op].pc = "raised"
    THEN [node |-> n, handlers |-> [h EXCEPT !["fetchFormData"] = "caught"]]
    ELSE IF \A op \in FormOps : cs[op].pc = "returned"
    THEN [node |-> [n EXCEPT !.users = cs["getUsers"].result.value,
                             !.departments = cs["getDepartments"].result.value,
                             !.okrs = cs["getOKRs"].result.value,
                             !.businessUnits = cs["getBusinessUnits"].result.value],
          handlers |-> [h EXCEPT !["fetchFormData"] = "done"]]
    ELSE [node |-> n, handlers |-> h]

\* The continuations that run once a call of the node has moved on.
FormContinues(n, h, cs) ==
    LET mount == FetchUsersContinues(n, h, cs)
    IN  FormJoin(mount.node, mount.handlers, cs)

InitForm ==
    /\ auth_token = Str("mock_token")
    /\ isAuthenticated = TRUE
    /\ reloadPending = FALSE
    /\ okrData = EmptyObject
    /\ okrCall = okrIdle
    /\ node = NodeInit
    /\ page = PageInit
    /\ alerts = <<>>
    /\ handlers = [h \in HandlerNames |-> IF h = "fetchUsers" THEN "awaiting" ELSE "idle"]
    /\ calls = [slot \in FormSlots |->
                  IF slot = "fetchUsers"
                  THEN StartCall("getUsers", <<>>, Str("mock_token"))
                  ELSE IdleCall]

\* The Edit button: setShowEditOKRForm(true); the effect then runs
\* fetchFormData up to its await.
OpenEditOKRForm ==
    /\ ~node.showEditOKRForm
    /\ handlers["fetchFormData"] = "idle"
    /\ node' = [node EXCEPT !.showEditOKRForm = TRUE]
    /\ calls' = [slot \in FormSlots |->
                   IF slot \in FormOps THEN StartCall(slot, <<>>, auth_token)
                   ELSE calls[slot]]
    /\ handlers' = [handlers EXCEPT !["fetchFormData"] = "awaiting"]
    /\ UNCHANGED <<auth_token, isAuthenticated, reloadPending, okrData, okrCall,
                   page, alerts>>

\* A call of the node moves on to cs; the continuations waiting on it run.
FormStep(cs) ==
    /\ calls' = cs
    /\ node' = FormContinues(node, handlers, cs).node
    /\ handlers' = FormContinues(node, handlers, cs).handlers
    /\ UNCHANGED <<auth_token, isAuthenticated, reloadPending, okrData, okrCall,
                   page, alerts>>

FormAttemptSucceeds(slot, data) ==
    /\ calls[slot].pc = "inflight"
    /\ FormStep([calls EXCEPT ![slot] = Finish(calls[slot], Returned(data))])

FormAttemptFails(slot, error) ==
    /\ calls[slot].pc = "inflight"
    /\ FormStep([calls EXCEPT ![slot] = Failed(calls[slot], error)])

FormTimerFires(slot) ==
    /\ calls[slot].pc = "backoff"
    /\ FormStep([calls EXCEPT ![slot] = Resumed(calls[slot], auth_token)])

NextForm ==
    \/ OpenEditOKRForm
    \/ \E slot \in FormSlots, data \in FormData : FormAttemptSucceeds(slot, data)
    \/ \E slot \in FormSlots, error \in FormErrors : FormAttemptFails(slot, error)
    \/ \E slot \in FormSlots : FormTimerFires(slot)

SpecForm == InitForm /\ [][NextForm]_vars

(***************************************************************************)
(* The payloads createOKR / updateOKR are applied to.                      *)
(***************************************************************************)
UserIds == {1, 2}

AssignedUser(id, primary) == Obj([user_id |-> Num(id), is_primary |-> Bool(primary)])

AssignedUserEntries == {AssignedUser(id, p) : id \in UserIds, p \in BOOLEAN}

AssignedUsersLists ==
    UNION {[1..n -> AssignedUserEntries] : n \in 0..MaxUsers}

\* The values a key takes; Undefined stands for a payload without the key.
TitleOptions == {Undefined, Str(""), Str("Grow revenue")}
NameOptions == {Undefined, Str("Old name")}
AssignedUsersOptions == {Undefined} \cup {Arr(l) : l \in AssignedUsersLists}
AssignedUserIdsOptions == {Undefined, Arr(<<Num(3)>>)}
PrimaryUserIdOptions == {Undefined, Num(3)}
BusinessUnitIdsOptions == {Undefined, Arr(<<>>), Arr(<<Num(7)>>)}
BusinessUnitsOptions == {Undefined, Arr(<<>>), Arr(<<Num(8)>>)}
DescriptionOptions == {Undefined, Str("Q3 goal")}

\* The object literal with the keys that were given.
Payload(fields) ==
    LET given == {k \in DOMAIN fields : fields[k] # Undefined}
    IN  [k \in given |-> fields[k]]

OkrIds == {5}
OkrResponses == {Obj([okr_id |-> Num(5)])}
OkrErrors == {NetworkError, HttpError}

(***************************************************************************)
(* Actions of SpecOKR.                                                     *)
(***************************************************************************)
InitOKR ==
    /\ auth_token \in {Null, Str("mock_token")}
    /\ isAuthenticated = Truthy(auth_token)
    /\ reloadPending = FALSE
    /\ calls = [c \in CallIds |-> IdleCall]
    /\ okrCall = okrIdle
    /\ UiIdle
    /\ \E title \in TitleOptions, name \in NameOptions,
          assigned_users \in AssignedUsersOptions,
          assigned_user_ids \in AssignedUserIdsOptions,
          primary_user_id \in PrimaryUserIdOptions,
          business_unit_ids \in BusinessUnitIdsOptions,
          business_units \in BusinessUnitsOptions,
          description \in DescriptionOptions :
        okrData = Payload([title |-> title, name |-> name,
                           assigned_users |-> assigned_users,
                           assigned_user_ids |-> assigned_user_ids,
                           primary_user_id |-> primary_user_id,
                           business_unit_ids |-> business_unit_ids,
                           business_units |-> business_units,
                           description |-> description])

\* api.createOKR(okrData), up to its await.
CreateOKR ==
    /\ okrCall.pc = "idle"
    /\ okrCall' = [op |-> "createOKR", pc |-> "inflight",
                   request |-> Request("POST", Url("/api/okrs/", <<>>, ""),
                                       Obj(JsonBody(CreateTransform(okrData))),
                                       auth_token),
                   result |-> Pending]
    /\ UNCHANGED <<auth_token, isAuthenticated, reloadPending, calls, okrData, uiVars>>

\* api.updateOKR(okrId, okrData), up to its await.
UpdateOKR(okrId) ==
    /\ okrCall.pc = "idle"
    /\ okrCall' = [op |-> "updateOKR", pc |-> "inflight",
                   request |-> Request("PUT", Url("/api/okrs/", <<okrId>>, "/"),
                                       Obj(JsonBody(UpdateTransform(okrData))),
                                       auth_token),
                   result |-> Pending]
    /\ UNCHANGED <<auth_token, isAuthenticated, reloadPending, calls, okrData, uiVars>>

\* return response.data
OKRSucceeds(data) ==
    /\ okrCall.pc = "inflight"
    /\ okrCall' = [okrCall EXCEPT !.pc = "returned", !.result = Returned(data)]
    /\ UNCHANGED <<auth_token, isAuthenticated, reloadPending, calls, okrData, uiVars>>

\* catch (error) { console.error(...); throw error; }
OKRFails(error) ==
    /\ okrCall.pc = "inflight"
    /\ okrCall' = [okrCall EXCEPT !.pc = "raised", !.result = Raised(error)]
    /\ UNCHANGED <<auth_token, isAuthenticated, reloadPending, calls, okrData, uiVars>>

NextOKR ==
    \/ CreateOKR
    \/ \E okrId \in OkrIds : UpdateOKR(okrId)
    \/ \E data \in OkrResponses : OKRSucceeds(data)
    \/ \E error \in OkrErrors : OKRFails(error)

SpecOKR == InitOKR /\ [][NextOKR]_vars

(***************************************************************************)
(* SpecUI: the mutating handlers of the UI on a logged-in page: the        *)
(* OKRNode's handleEditOKR, handleEditTask and handleContinueIteration and *)
(* the tasks page's handleUpdateTask.  The call slots are the handlers'    *)
(* API calls, by handler; each handler runs at most once.                  *)
(***************************************************************************)
UiHandlers ==
    {"handleEditOKR", "handleEditTask", "handleContinueIteration", "handleUpdateTask"}

UiErrors == {NetworkError, HttpError}

\* response.data of the backend: nothing, the OKR of the node, another
\* record.
UiResponses ==
    {Null,
     Obj([okr_id |-> Num(5), name |-> Str("New name"), progress_percent |-> Num(60)]),
     Obj([okr_id |-> Num(6), task_id |-> Num(1), title |-> Str("New title")])}

NodeTask == Obj([task_id |-> Num(1), title |-> Str("Old title")])

PageTask == Obj([id |-> Num(1), status |-> Str("Not Started")])

\* What the forms submit.
EditOKRFormData == [okrId |-> Num(5), name |-> Str("New name")]
EditTaskFormData == [task_id |-> Num(1), title |-> Str("New title")]
TaskUpdates == [status |-> Str("Completed")]

\* The data argument as the operation sends it.
UiBody(op, data) ==
    CASE op = "createOKR" -> Obj(JsonBody(CreateTransform(data)))
      [] op = "updateOKR" -> Obj(JsonBody(UpdateTransform(data)))
      [] OTHER -> Obj(JsonBody(data))

\* api[op](...args, data) up to its first await.
StartCallWith(op, args, data, token) ==
    [StartCall(op, args, token) EXCEPT
        !.request = Request(PlainMethod(op), PlainPath(op, args), UiBody(op, data), token)]

Alert(by, text) == [by |-> by, text |-> text]

\* A property read of null or undefined throws a TypeError.
Throws(x) == x.t \in {"null", "undefined"}

\* x.k of a value that is not null or undefined.
Prop(x, k) == IF x.t = "object" THEN Get(x.v, k) ELSE Undefined

\* A handler that closes the form whether or not the update succeeded.
EditOKRContinuesClosesForm(n, result) ==
    IF result.kind = "raised"
    THEN [node |-> [n EXCEPT !.showEditOKRForm = FALSE], pos |-> "caught",
          alerts |-> <<Alert("handleEditOKR", "Failed to update OKR. Please try again.")>>]
    ELSE [node |-> [n EXCEPT !.showEditOKRForm = FALSE], pos |-> "done",
          alerts |-> <<Alert("handleEditOKR", "OKR updated successfully!")>>]

\* handleEditOKR after await api.updateOKR(...).
EditOKRContinues(n, result) ==
    IF result.kind = "raised"
    THEN [node |-> n, pos |-> "caught",
          alerts |-> <<Alert("handleEditOKR", "Failed to update OKR. Please try again.")>>]
    ELSE
    LET updatedOKR == result.value
        n1 == [n EXCEPT !.showEditOKRForm = FALSE]
        same == n.data.okr_id = Prop(updatedOKR, "okr_id")
        n2 == IF same
              THEN [n1 EXCEPT !.data =
                        [n.data EXCEPT !.progress_percent = Prop(updatedOKR, "progress_percent"),
                                       !.name = Prop(updatedOKR, "name"),
                                       !.description = Prop(updatedOKR, "description"),
                                       !.status = Prop(updatedOKR, "status"),
                                       !.due_date = Prop(updatedOKR, "due_date"),
                                       !.assumptions = Prop(updatedOKR, "assumptions")],
                               !.isExpanded = FALSE]
              ELSE n1
        n3 == IF Truthy(Prop(updatedOKR, "assigned_users_details"))
              THEN [n2 EXCEPT !.assignedUsers = Prop(updatedOKR, "assigned_users_details")]
              ELSE n2
    IN  IF Throws(updatedOKR)
        THEN [node |-> n1, pos |-> "caught",
              alerts |-> <<Alert("handleEditOKR", "OKR updated successfully!"),
                           Alert("handleEditOKR", "Failed to update OKR. Please try again.")>>]
        ELSE [node |-> n3, pos |-> IF same THEN "timer" ELSE "done",
              alerts |-> <<Alert("handleEditOKR", "OKR updated successfully!")>>]

\* handleEditTask after await api.updateTask(...).
EditTaskContinues(n, task_id, result) ==
    IF result.kind = "raised"
    THEN [node |-> n, pos |-> "caught",
          alerts |-> <<Alert("handleEditTask", "Failed to update task. Please try again.")>>]
    ELSE
    LET replaced(task) == IF Prop(task, "task_id") = task_id THEN result.value ELSE task
    IN  IF \E i \in 1..Len(n.tasks.v) : Throws(n.tasks.v[i])
        THEN [node |-> n, pos |-> "caught",
              alerts |-> <<Alert("handleEditTask", "Failed to update task. Please try again.")>>]
        ELSE [node |-> [n EXCEPT !.tasks = Arr([i \in 1..Len(n.tasks.v) |->
                                                   replaced(n.tasks.v[i])]),
                                 !.showEditTaskForm = FALSE,
                                 !.selectedTask = Null],
              pos |-> "done",
              alerts |-> <<Alert("handleEditTask", "Task updated successfully!")>>]

\* newOKRData of handleContinueIteration.
NewOKRData(data) ==
    [name |-> data.name, description |-> data.description,
     parent_okr_id |-> data.parent_okr_id, due_date |-> Null,
     status |-> Str("Not Started"), progress_percent |-> Num(0),
     assumptions |-> data.assumptions, isMeasurable |-> data.isMeasurable,
     previous_iteration_id |-> data.okr_id]

\* handleContinueIteration after await api.createOKR(...): with users
\* assigned, the copy of the assignments throws (api has no assignUserToOKR,
\* and createdOKR may be null); the data prop has no onContinueIteration.
ContinueIterationContinues(n, result) ==
    IF result.kind = "raised" \/ (Truthy(n.assignedUsers) /\ Len(n.assignedUsers.v) > 0)
    THEN [node |-> n, pos |-> "caught",
          alerts |-> <<Alert("handleContinueIteration",
                             "Failed to create new iteration. Please try again.")>>]
    ELSE [node |-> n, pos |-> "done",
          alerts |-> <<Alert("handleContinueIteration",
                             "New iteration created successfully! Refresh to see changes.")>>]

\* A handler that maps over the list it rendered with (tasks) instead of the
\* list of the moment (prevTasks).
UpdateTaskContinuesStale(pg, taskId, updates, result) ==
    IF result.kind = "raised"
    THEN [page |-> pg, pos |-> "caught"]
    ELSE
    LET rendered == <<PageTask, Obj([id |-> Num(2), status |-> Str("In Progress")])>>
        merged(task) == IF Prop(task, "id") = taskId
                        THEN Obj(Merge(task.v, updates))
                        ELSE task
    IN  [page |-> [pg EXCEPT !.tasks = Arr([i \in 1..Len(rendered) |->
                                              merged(rendered[i])])],
         pos |-> "done"]

\* handleUpdateTask after await api.updateTask(...): the catch block logs.
UpdateTaskContinues(pg, taskId, updates, result) ==
    IF result.kind = "raised"
    THEN [page |-> pg, pos |-> "caught"]
    ELSE
    LET merged(task) == IF Prop(task, "id") = taskId
                        THEN Obj(Merge(task.v, updates))
                        ELSE task
    IN  IF \E i \in 1..Len(pg.tasks.v) : Throws(pg.tasks.v[i])
        THEN [page |-> pg, pos |-> "caught"]
        ELSE [page |-> [pg EXCEPT !.tasks = Arr([i \in 1..Len(pg.tasks.v) |->
                                                    merged(pg.tasks.v[i])])],
              pos |-> "done"]

\* The forms that can be open on the node.
OpenForms == {"none", "EditOKRForm", "EditTaskForm"}

\* An expanded node with its tasks shown, one of the forms open or none, and
\* users assigned or not; the tasks page has its tasks.
InitUI ==
    /\ auth_token = Str("mock_token")
    /\ isAuthenticated = TRUE
    /\ reloadPending = FALSE
    /\ okrData = EmptyObject
    /\ okrCall = okrIdle
    /\ \E form \in OpenForms, assigned \in {<<>>, <<AssignedUser(1, TRUE)>>} :
          /\ node = [NodeInit EXCEPT !.isExpanded = TRUE, !.showTasks = TRUE,
                                     !.tasks = Arr(<<NodeTask>>),
                                     !.showEditOKRForm = (form = "EditOKRForm"),
                                     !.showEditTaskForm = (form = "EditTaskForm"),
                                     !.selectedTask = IF form = "EditTaskForm"
                                                      THEN NodeTask ELSE Null,
                                     !.assignedUsers = Arr(assigned)]
          /\ handlers = [h \in HandlerNames |->
                           IF h = "fetchUsers" \/ (h = "fetchFormData" /\ form # "none")
                           THEN "done" ELSE "idle"]
    /\ page = [tasks |-> Arr(<<PageTask>>), loading |-> FALSE]
    /\ alerts = <<>>
    /\ calls = [h \in UiHandlers |-> IdleCall]

\* A handler runs up to its await.
UiStart(h, call) ==
    /\ handlers[h] = "idle"
    /\ calls' = [calls EXCEPT ![h] = call]
    /\ handlers' = [handlers EXCEPT ![h] = "awaiting"]
    /\ UNCHANGED <<auth_token, isAuthenticated, reloadPending, okrData, okrCall,
                   node, page, alerts>>

\* EditOKRForm onSubmit.
HandleEditOKR(formData) ==
    /\ node.showEditOKRForm
    /\ UiStart("handleEditOKR",
               StartCallWith("updateOKR", <<formData.okrId.v>>, formData, auth_token))

\* EditTaskForm onSubmit.
HandleEditTask(formData) ==
    /\ node.showEditTaskForm
    /\ UiStart("handleEditTask",
               StartCallWith("updateTask", <<formData.task_id.v>>, formData, auth_token))

\* The "Continue to iterate?" button of the expanded node, confirmed.
HandleContinueIteration ==
    /\ node.isExpanded
    /\ UiStart("handleContinueIteration",
               StartCallWith("createOKR", <<>>, NewOKRData(node.data), auth_token))

\* TasksList onUpdateTask, on the loaded page.
HandleUpdateTask(taskId, updates) ==
    /\ ~page.loading
    /\ UiStart("handleUpdateTask",
               StartCallWith("updateTask", <<taskId>>, updates, auth_token))

\* The handler's call has ended; the handler runs to its end.
UiSettles(h, call) ==
    /\ calls' = [calls EXCEPT ![h] = call]
    /\ IF h = "handleUpdateTask"
       THEN LET c == UpdateTaskContinues(page, Num(call.args[1]), call.request.body.v,
                                         call.result)
            IN  /\ page' = c.page
                /\ handlers' = [handlers EXCEPT ![h] = c.pos]
                /\ UNCHANGED <<node, alerts>>
       ELSE LET c == CASE h = "handleEditOKR" -> EditOKRContinues(node, call.result)
                       [] h = "handleEditTask" ->
                            EditTaskContinues(node, Num(call.args[1]), call.result)
                       [] OTHER -> ContinueIterationContinues(node, call.result)
            IN  /\ node' = c.node
                /\ alerts' = alerts \o c.alerts
                /\ handlers' = [handlers EXCEPT ![h] = c.pos]
                /\ UNCHANGED page
    /\ UNCHANGED <<auth_token, isAuthenticated, reloadPending, okrData, okrCall>>

UiCallSucceeds(h, data) ==
    /\ calls[h].pc = "inflight"
    /\ UiSettles(h, Finish(calls[h], Returned(data)))

UiCallFails(h, error) ==
    /\ calls[h].pc = "inflight"
    /\ UiSettles(h, Failed(calls[h], error))

\* setTimeout(() => setIsExpanded(true), 10)
ExpandTimerFires ==
    /\ handlers["handleEditOKR"] = "timer"
    /\ node' = [node EXCEPT !.isExpanded = TRUE]
    /\ handlers' = [handlers EXCEPT !["handleEditOKR"] = "done"]
    /\ UNCHANGED <<auth_token, isAuthenticated, reloadPending, calls, okrData, okrCall,
                   page, alerts>>

NextUI ==
    \/ HandleEditOKR(EditOKRFormData)
    \/ HandleEditTask(EditTaskFormData)
    \/ HandleContinueIteration
    \/ HandleUpdateTask(1, TaskUpdates)
    \/ \E h \in UiHandlers, data \in UiResponses : UiCallSucceeds(h, data)
    \/ \E h \in UiHandlers, error \in UiErrors : UiCallFails(h, error)
    \/ ExpandTimerFires

SpecUI == InitUI /\ [][NextUI]_vars

(***************************************************************************)
(* SpecTasks: the task section of an expanded OKRNode: toggleTasks and the *)
(* fetchTasks calls it starts.  The call slots are the fetches, in the     *)
(* order they were started; the list endpoint answers with a list.         *)
(***************************************************************************)
FetchSlots == 1..MaxFetches

OtherTask == Obj([task_id |-> Num(2), title |-> Str("Added later")])

TaskLists == {Arr(<<>>), Arr(<<NodeTask>>), Arr(<<NodeTask, OtherTask>>)}

TaskErrors == {NetworkError, HttpError}

InitTasks ==
    /\ auth_token = Str("mock_token")
    /\ isAuthenticated = TRUE
    /\ reloadPending = FALSE
    /\ okrData = EmptyObject
    /\ okrCall = okrIdle
    /\ node = [NodeInit EXCEPT !.isExpanded = TRUE]
    /\ page = PageInit
    /\ alerts = <<>>
    /\ handlers = [h \in HandlerNames |-> IF h = "fetchUsers" THEN "done" ELSE "idle"]
    /\ calls = [i \in FetchSlots |-> IdleCall]

\* The condition under which toggleTasks calls fetchTasks.
TogglesFetch(n) == ~n.showTasks /\ Len(n.tasks.v) = 0

\* The "View Tasks" / "Hide Tasks" button: fetchTasks up to its await when
\* the section opens with no tasks, then setShowTasks(!showTasks).
ToggleTasks ==
    /\ node.isExpanded
    /\ LET free == {i \in FetchSlots : calls[i].pc = "idle"}
           next == CHOOSE i \in free : \A j \in free : i <= j
       IN  IF TogglesFetch(node)
           THEN /\ free # {}
                /\ calls' = [calls EXCEPT ![next] =
                                StartCall("getOKRTasks", <<node.data.okr_id.v>>, auth_token)]
                /\ node' = [node EXCEPT !.isTaskLoading = TRUE,
                                        !.showTasks = ~node.showTasks]
           ELSE /\ calls' = calls
                /\ node' = [node EXCEPT !.showTasks = ~node.showTasks]
    /\ UNCHANGED <<auth_token, isAuthenticated, reloadPending, okrData, okrCall,
                   page, alerts, handlers>>

\* fetchTasks after await api.getOKRTasks(...).
FetchTasksContinues(n, result) ==
    IF result.kind = "returned"
    THEN [n EXCEPT !.tasks = result.value, !.isTaskLoading = FALSE]
    ELSE [n EXCEPT !.isTaskLoading = FALSE]

FetchTasksSettles(i, call) ==
    /\ calls' = [calls EXCEPT ![i] = call]
    /\ node' = FetchTasksContinues(node, call.result)
    /\ UNCHANGED <<auth_token, isAuthenticated, reloadPending, okrData, okrCall,
                   page, alerts, handlers>>

FetchTasksSucceeds(i, data) ==
    /\ calls[i].pc = "inflight"
    /\ FetchTasksSettles(i, Finish(calls[i], Returned(data)))

FetchTasksFails(i, error) ==
    /\ calls[i].pc = "inflight"
    /\ FetchTasksSettles(i, Failed(calls[i], error))

NextTasks ==
    \/ ToggleTasks
    \/ \E i \in FetchSlots, data \in TaskLists : FetchTasksSucceeds(i, data)
    \/ \E i \in FetchSlots, error \in TaskErrors : FetchTasksFails(i, error)

SpecTasks == InitTasks /\ [][NextTasks]_vars

(***************************************************************************)
(* SpecPage: the tasks page with two tasks and several handleUpdateTask    *)
(* invocations running at once.  The call slots and the handler positions  *)
(* are by invocation, in the order they were started.                      *)
(***************************************************************************)
UpdateSlots == 1..MaxUpdates

SecondPageTask == Obj([id |-> Num(2), status |-> Str("In Progress")])

PageTaskIds == {1, 2}

UpdateOptions == {TaskUpdates, [status |-> Str("Blocked")]}

InitPage ==
    /\ auth_token = Str("mock_token")
    /\ isAuthenticated = TRUE
    /\ reloadPending = FALSE
    /\ okrData = EmptyObject
    /\ okrCall = okrIdle
    /\ node = NodeInit
    /\ page = [tasks |-> Arr(<<PageTask, SecondPageTask>>), loading |-> FALSE]
    /\ alerts = <<>>
    /\ handlers = [i \in UpdateSlots |-> "idle"]
    /\ calls = [i \in UpdateSlots |-> IdleCall]

\* TasksList onUpdateTask: handleUpdateTask up to its await.
PageUpdateTask(i, taskId, updates) ==
    /\ ~page.loading
    /\ handlers[i] = "idle"
    /\ \A j \in UpdateSlots : j < i => handlers[j] # "idle"
    /\ calls' = [calls EXCEPT ![i] =
                    StartCallWith("updateTask", <<taskId>>, updates, auth_token)]
    /\ handlers' = [handlers EXCEPT ![i] = "awaiting"]
    /\ UNCHANGED <<auth_token, isAuthenticated, reloadPending, okrData, okrCall,
                   node, page, alerts>>

\* The invocation's call has ended; handleUpdateTask runs to its end.
PageUpdateSettles(i, call) ==
    LET c == UpdateTaskContinues(page, Num(call.args[1]), call.request.body.v, call.result)
    IN  /\ calls' = [calls EXCEPT ![i] = call]
        /\ page' = c.page
        /\ handlers' = [handlers EXCEPT ![i] = c.pos]
        /\ UNCHANGED <<auth_token, isAuthenticated, reloadPending, okrData, okrCall,
                       node, alerts>>

PageUpdateSucceeds(i, data) ==
    /\ calls[i].pc = "inflight"
    /\ PageUpdateSettles(i, Finish(calls[i], Returned(data)))

PageUpdateFails(i, error) ==
    /\ calls[i].pc = "inflight"
    /\ PageUpdateSettles(i, Failed(calls[i], error))

NextPage ==
    \/ \E i \in UpdateSlots, taskId \in PageTaskIds, updates \in UpdateOptions :
          PageUpdateTask(i, taskId, updates)
    \/ \E i \in UpdateSlots, data \in UiResponses : PageUpdateSucceeds(i, data)
    \/ \E i \in UpdateSlots, error \in UiErrors : PageUpdateFails(i, error)

SpecPage == InitPage /\ [][NextPage]_vars

(***************************************************************************)
(* Properties of the retry-wrapped operations (checked under Spec).        *)
(***************************************************************************)
\* A transient error: error.code is ERR_NETWORK or ECONNABORTED.
Transient(error) == error.code \in {Str("ERR_NETWORK"), Str("ECONNABORTED")}

AllTransient(call) == \A i \in 1..Len(call.errs) : Transient(call.errs[i])

\* C1: when every attempt of a retry-wrapped call fails with a transient
\* error, apiCallWithRetry raises only after exactly 3 HTTP attempts, and what
\* it raises is the error of the third attempt; no call makes more than 3.
C1_ThreeAttemptsThenLastError ==
    \A c \in CallIds :
        /\ calls[c].nreq <= 3
        /\ (calls[c].retry.kind = "raised" /\ AllTransient(calls[c]))
              => /\ calls[c].nreq = 3
                 /\ Len(calls[c].errs) = 3
                 /\ calls[c].retry.value = calls[c].errs[3]

\* A login whose three attempts failed transiently, the first and the third
\* with different errors.
C1_Witness ==
    \E c \in CallIds :
        /\ calls[c].op = "login"
        /\ calls[c].retry.kind = "raised"
        /\ Len(calls[c].errs) = 3
        /\ AllTransient(calls[c])
        /\ calls[c].errs[1] # calls[c].errs[3]
        /\ calls[c].retry.value = calls[c].errs[3]

\* C2: in a call whose attempts all fail transiently the only waits are
\* 1000ms after the 1st and 2000ms after the 2nd attempt; no wait follows the
\* failure of the 3rd attempt.
C2_OnlyTwoWaits ==
    \A c \in CallIds :
        AllTransient(calls[c])
            => /\ Len(calls[c].waits) <= 2
               /\ (Len(calls[c].waits) >= 1 => calls[c].waits[1] = 1000)
               /\ (Len(calls[c].waits) >= 2 => calls[c].waits[2] = 2000)
               /\ (Len(calls[c].errs) = 3 => calls[c].pc # "backoff")

\* C3: a non-transient error, at whichever attempt it occurs, is the call's
\* last event: no attempt and no wait follows it, and it is the error raised.
C3_NonTransientRaisedAtOnce ==
    \A c \in CallIds :
        \A i \in 1..Len(calls[c].errs) :
            ~Transient(calls[c].errs[i])
                => /\ i = Len(calls[c].errs)
                   /\ calls[c].nreq = i
                   /\ Len(calls[c].waits) = i - 1
                   /\ calls[c].pc \notin {"inflight", "backoff"}
                   /\ calls[c].retry = Raised(calls[c].errs[i])

\* A call whose third attempt met an HTTP error after two transient failures.
C3_Witness ==
    \E c \in CallIds :
        /\ Len(calls[c].errs) = 3
        /\ calls[c].errs[3] = HttpError
        /\ calls[c].retry = Raised(HttpError)
        /\ calls[c].waits = <<1000, 2000>>

\* C4: getDepartments and getUsers never raise, and a finished call none of
\* whose attempts succeeded has returned the empty list.
C4_ListReadsReturnEmpty ==
    \A c \in CallIds :
        calls[c].op \in {"getDepartments", "getUsers"}
            => /\ calls[c].pc # "raised"
               /\ calls[c].result.kind # "raised"
               /\ (calls[c].retry.kind = "raised"
                     => /\ calls[c].pc = "returned"
                        /\ calls[c].result = Returned(Arr(<<>>)))

\* getDepartments returned after three transient failures.
C4_Witness ==
    \E c \in CallIds :
        /\ calls[c].op = "getDepartments"
        /\ Len(calls[c].errs) = 3
        /\ AllTransient(calls[c])
        /\ calls[c].pc = "returned"
        /\ calls[c].result.value = Arr(<<>>)

\* C5: every step that dispatches an HTTP attempt puts on the request the
\* header Authorization: Bearer <token> with the token the auth_token slot
\* holds at that step, and no Authorization header when the slot is empty.
C5_BearerIffTokenInSlot ==
    [][\A c \in CallIds :
          calls'[c].nreq = calls[c].nreq + 1
              => IF auth_token # Null
                 THEN /\ "Authorization" \in DOMAIN calls'[c].request.headers
                      /\ calls'[c].request.headers["Authorization"].v
                            = <<"Bearer", auth_token.v>>
                 ELSE "Authorization" \notin DOMAIN calls'[c].request.headers]_vars

\* A retry attempt of login in flight without the header, dispatched before
\* the login that has since filled the slot.
C5_Witness ==
    \E c \in CallIds :
        /\ calls[c].op = "login"
        /\ calls[c].pc = "inflight"
        /\ calls[c].nreq = 2
        /\ "Authorization" \notin DOMAIN calls[c].request.headers
        /\ auth_token = Str("mock_token")

\* C16: the auth_token slot changes only in a step of handleLogin (which
\* sets it) or handleLogout (which removes it), never in a step of an api
\* operation, of the interceptor or of the retry loop, api.login included;
\* and from handleLogout on the slot stays empty until handleLogin, so every
\* request dispatched in between carries no Authorization header.
C16_SlotWrittenByLoginAndLogoutOnly ==
    [][/\ auth_token' # auth_token
            => \/ HandleLogin /\ auth_token' = Str("mock_token")
               \/ HandleLogout /\ auth_token' = Null
       /\ HandleLogout => auth_token' = Null
       /\ (auth_token = Null /\ ~HandleLogin)
            => /\ auth_token' = Null
               /\ \A c \in CallIds :
                     calls'[c].nreq = calls[c].nreq + 1
                        => "Authorization" \notin DOMAIN calls'[c].request.headers]_vars

\* After handleLogout, a retry attempt of api.login was dispatched without
\* the header, and the slot is still empty.
C16_Witness ==
    /\ reloadPending
    /\ auth_token = Null
    /\ \E c \in CallIds :
          /\ calls[c].op = "login"
          /\ calls[c].pc = "inflight"
          /\ calls[c].nreq = 2
          /\ "Authorization" \notin DOMAIN calls[c].request.headers

(***************************************************************************)
(* Properties of concurrent retry-wrapped calls (checked under SpecRetry). *)
(***************************************************************************)
\* Attempts of the call dispatched and not yet settled.
Unsettled(call) ==
    call.nreq - Len(call.errs) - (IF call.retry.kind = "returned" THEN 1 ELSE 0)

\* C15: a retry-wrapped call never has more than one attempt unsettled, and
\* a step dispatches its attempt n+1 only from the backoff wait, when all n
\* earlier attempts have failed and n waits have been made; steps of other
\* calls are not constrained by it.
C15_AttemptsSequentialPerCall ==
    [][\A c \in RetryCallIds :
          /\ Unsettled(calls'[c]) \in {0, 1}
          /\ Unsettled(calls'[c]) = 1 <=> calls'[c].pc = "inflight"
          /\ (calls'[c].nreq # calls[c].nreq /\ calls[c].nreq >= 1)
                => /\ calls'[c].nreq = calls[c].nreq + 1
                   /\ calls[c].pc = "backoff"
                   /\ Len(calls[c].errs) = calls[c].nreq
                   /\ Len(calls[c].waits) = calls[c].nreq
                   /\ \A i \in 1..calls[c].nreq : ShouldRetry(calls[c].errs[i])]_vars

\* Two calls interleaved: one has its second attempt in flight while the
\* other has its third in flight.
C15_Witness ==
    \E c1, c2 \in RetryCallIds :
        /\ c1 # c2
        /\ calls[c1].pc = "inflight" /\ calls[c1].nreq = 2
        /\ calls[c2].pc = "inflight" /\ calls[c2].nreq = 3

\* C18: every retry-wrapped call that was started ends, returned or raised,
\* and never makes more than three attempts.
C18_RetryCallsTerminate ==
    /\ [](\A c \in RetryCallIds : calls[c].nreq <= retryCount)
    /\ \A c \in RetryCallIds :
          (calls[c].pc \in {"inflight", "backoff"})
              ~> (calls[c].pc \in {"returned", "raised"})

\* A call that ended after three failed attempts and three waits.
C18_Witness ==
    \E c \in RetryCallIds :
        /\ calls[c].pc = "raised"
        /\ calls[c].nreq = retryCount
        /\ Len(calls[c].errs) = retryCount
        /\ Len(calls[c].waits) = retryCount

(***************************************************************************)
(* Properties of the edit-form data loader (checked under SpecForm).       *)
(***************************************************************************)
\* The four pieces of state fetchFormData sets.
FormState(n) == <<n.users, n.departments, n.okrs, n.businessUnits>>

\* What the four calls of fetchFormData returned.
FormResults(cs) ==
    <<cs["getUsers"].result.value, cs["getDepartments"].result.value,
      cs["getOKRs"].result.value, cs["getBusinessUnits"].result.value>>

\* C17: fetchFormData starts its four calls in one step; a step of that load
\* (any step but one of the mount effect's fetchUsers) changes users,
\* departments, okrs or businessUnits only if it leaves all four calls
\* returned, and the step that returns the last of the four, whichever call
\* that is, sets the four to the four results; a step that leaves getOKRs or
\* getBusinessUnits failed, and every step after it, changes none of them.
C17_FormDataFanOutFanIn ==
    [][/\ (handlers["fetchFormData"] = "idle" /\ handlers'["fetchFormData"] # "idle")
            => \A op \in FormOps :
                  /\ calls'[op].op = op
                  /\ calls'[op].pc = "inflight"
                  /\ calls'[op].nreq = 1
       /\ calls'["fetchUsers"] = calls["fetchUsers"]
            => /\ FormState(node') # FormState(node)
                    => /\ \A op \in FormOps : calls'[op].pc = "returned"
                       /\ FormState(node') = FormResults(calls')
               /\ ((\A op \in FormOps : calls'[op].pc = "returned")
                    /\ (\E op \in FormOps : calls[op].pc # "returned"))
                    => FormState(node') = FormResults(calls')
               /\ (calls'["getOKRs"].pc = "raised"
                    \/ calls'["getBusinessUnits"].pc = "raised")
                    => FormState(node') = FormState(node)]_vars

\* The load has set the four pieces of state, getUsers having returned last
\* of the four by force (it made three attempts), while the mount effect's
\* fetchUsers is still in flight.
C17_Witness ==
    /\ handlers["fetchFormData"] = "done"
    /\ calls["fetchUsers"].pc = "inflight"
    /\ calls["getUsers"].nreq = 3
    /\ node.users = Arr(<<Num(1)>>)
    /\ node.departments = Arr(<<>>)
    /\ node.okrs = Arr(<<Num(1)>>)
    /\ node.businessUnits = Null

(***************************************************************************)
(* Properties of the mutating handlers (checked under SpecUI).             *)
(***************************************************************************)
\* C19: whenever the API call of handleEditOKR, handleEditTask,
\* handleContinueIteration or handleUpdateTask has failed, an alert of that
\* handler has been shown.
C19_FailedMutationAlerts ==
    \A h \in UiHandlers :
        calls[h].result.kind = "raised"
            => \E i \in 1..Len(alerts) : alerts[i].by = h

(***************************************************************************)
(* Properties of createOKR / updateOKR (checked under SpecOKR).            *)
(***************************************************************************)
Sent(op) == okrCall.op = op /\ okrCall.pc # "idle"

SentBody == okrCall.request.body.v

\* The body carries the split of the payload's assigned_users.
AssignedUsersSplit(op) ==
    (Sent(op) /\ "assigned_users" \in DOMAIN okrData)
        => LET users == okrData["assigned_users"].v
               primaries == {i \in 1..Len(users) : users[i].v["is_primary"].v}
           IN  /\ "assigned_users" \notin DOMAIN SentBody
               /\ "assigned_user_ids" \in DOMAIN SentBody
               /\ Len(SentBody["assigned_user_ids"].v) = Len(users)
               /\ \A i \in 1..Len(users) :
                     SentBody["assigned_user_ids"].v[i] = users[i].v["user_id"]
               /\ IF primaries = {}
                  THEN "primary_user_id" \notin DOMAIN SentBody
                  ELSE /\ "primary_user_id" \in DOMAIN SentBody
                       /\ \E i \in primaries :
                             /\ \A j \in primaries : i <= j
                             /\ SentBody["primary_user_id"] = users[i].v["user_id"]

\* The body carries the payload's title as name, and no title.
TitleRenamed ==
    /\ Get(SentBody, "name") = okrData["title"]
    /\ "title" \notin DOMAIN SentBody

\* C6: the body updateOKR sends for a payload with assigned_users has
\* assigned_user_ids equal to the list's user_ids in order, primary_user_id
\* equal to the user_id of the (first) primary entry, or no primary_user_id
\* when no entry is primary, and no assigned_users key.
C6_UpdateSplitsAssignedUsers == AssignedUsersSplit("updateOKR")

\* The payload [{1, true}, {2, false}] sent as [1, 2] with primary 1.
C6_Witness ==
    /\ Sent("updateOKR")
    /\ "assigned_users" \in DOMAIN okrData
    /\ okrData["assigned_users"] = Arr(<<AssignedUser(1, TRUE), AssignedUser(2, FALSE)>>)
    /\ SentBody["assigned_user_ids"] = Arr(<<Num(1), Num(2)>>)
    /\ SentBody["primary_user_id"] = Num(1)
    /\ "assigned_users" \notin DOMAIN SentBody

\* C7: the body createOKR sends for a payload with a title key, whatever the
\* title's value, has name equal to that title and no title key.
C7_CreateRenamesTitle ==
    (Sent("createOKR") /\ "title" \in DOMAIN okrData) => TitleRenamed

\* C8: the body createOKR sends for a payload with assigned_users carries the
\* split of that list (assigned_user_ids, primary_user_id, no assigned_users).
C8_CreateSplitsAssignedUsers == AssignedUsersSplit("createOKR")

\* C9: the body updateOKR sends for a payload with title and no name has
\* name equal to that title and no title key.
C9_UpdateRenamesTitle ==
    (Sent("updateOKR") /\ "title" \in DOMAIN okrData /\ "name" \notin DOMAIN okrData)
        => TitleRenamed

\* C10: the body updateOKR sends has business_unit_ids equal to the payload's
\* business_unit_ids when given, else to its business_units, else to [], and
\* never has a business_units key.
C10_UpdateBusinessUnitIds ==
    Sent("updateOKR")
        => /\ "business_units" \notin DOMAIN SentBody
           /\ "business_unit_ids" \in DOMAIN SentBody
           /\ SentBody["business_unit_ids"] =
                 IF "business_unit_ids" \in DOMAIN okrData
                 THEN okrData["business_unit_ids"]
                 ELSE IF "business_units" \in DOMAIN okrData
                      THEN okrData["business_units"]
                      ELSE Arr(<<>>)

\* A payload with business_units [8] and no business_unit_ids, sent as
\* business_unit_ids [8].
C10_Witness ==
    /\ Sent("updateOKR")
    /\ "business_unit_ids" \notin DOMAIN okrData
    /\ "business_units" \in DOMAIN okrData
    /\ okrData["business_units"] = Arr(<<Num(8)>>)
    /\ SentBody["business_unit_ids"] = Arr(<<Num(8)>>)
    /\ "business_units" \notin DOMAIN SentBody

\* C11: the body createOKR sends for a payload with business_units and no
\* business_unit_ids has business_unit_ids equal to that list and no
\* business_units key.
C11_CreateBusinessUnitsFallback ==
    (/\ Sent("createOKR")
     /\ "business_units" \in DOMAIN okrData
     /\ "business_unit_ids" \notin DOMAIN okrData)
        => /\ Get(SentBody, "business_unit_ids") = okrData["business_units"]
           /\ "business_units" \notin DOMAIN SentBody

(***************************************************************************)
(* Properties of the whole api object (checked under SpecApi).             *)
(***************************************************************************)
\* C12: only login, getDepartments and getUsers make a second attempt or
\* wait; every other operation makes exactly one HTTP attempt, and is over
\* as soon as that attempt has failed, transiently or not.
C12_RetryIsOptIn ==
    \A c \in CallIds :
        /\ (calls[c].nreq > 1 \/ Len(calls[c].waits) > 0)
              => calls[c].op \in {"login", "getDepartments", "getUsers"}
        /\ (calls[c].op \notin {"none", "login", "getDepartments", "getUsers"})
              => /\ calls[c].nreq = 1
                 /\ calls[c].waits = <<>>
                 /\ (Len(calls[c].errs) = 1
                       => calls[c].pc \in {"returned", "raised"})

\* getOKRs over after one attempt that failed with ERR_NETWORK.
C12_Witness ==
    \E c \in CallIds :
        /\ calls[c].op = "getOKRs"
        /\ calls[c].errs = <<NetworkError>>
        /\ calls[c].nreq = 1
        /\ calls[c].pc = "raised"

\* C13 as stated: on a successful response every operation returns the
\* response payload verbatim, whatever the payload.
C13_ReturnsPayloadVerbatim ==
    \A c \in CallIds :
        calls[c].retry.kind = "returned"
            => calls[c].result = Returned(calls[c].retry.value)

\* C13 amended: on a successful response every operation other than
\* checkBackendConnection returns the response payload verbatim, except that
\* getDepartments and getUsers return [] in place of a falsy payload (null);
\* checkBackendConnection returns true.
C13_ReturnsPayloadOrSubstitute ==
    \A c \in CallIds :
        calls[c].retry.kind = "returned"
            => calls[c].result =
                  IF calls[c].op = "checkBackendConnection"
                  THEN Returned(Bool(TRUE))
                  ELSE IF calls[c].op \in {"getDepartments", "getUsers"}
                          /\ calls[c].retry.value = Null
                       THEN Returned(Arr(<<>>))
                       ELSE Returned(calls[c].retry.value)

\* getOKRs returning the null payload it received.
C13_Witness ==
    \E c \in CallIds :
        /\ calls[c].op = "getOKRs"
        /\ calls[c].retry = Returned(Null)
        /\ calls[c].result = Returned(Null)

\* C14 as stated: a failed HTTP call of any operation other than
\* getDepartments and getUsers ends the operation with that error raised.
C14_OthersPropagate ==
    \A c \in CallIds :
        (calls[c].retry.kind = "raised"
         /\ calls[c].op \notin {"getDepartments", "getUsers"})
            => calls[c].result = Raised(calls[c].retry.value)

\* C14 amended: a failed HTTP call of any operation other than
\* getDepartments, getUsers and checkBackendConnection ends the operation with
\* that error raised; checkBackendConnection returns false instead.
C14_OthersPropagateButProbe ==
    \A c \in CallIds :
        (calls[c].retry.kind = "raised"
         /\ calls[c].op \notin {"getDepartments", "getUsers"})
            => calls[c].result =
                  IF calls[c].op = "checkBackendConnection"
                  THEN Returned(Bool(FALSE))
                  ELSE Raised(calls[c].retry.value)

\* updateTask ended with the HTTP error of its request.
C14_Witness ==
    \E c \in CallIds :
        /\ calls[c].op = "updateTask"
        /\ calls[c].errs = <<HttpError>>
        /\ calls[c].result = Raised(HttpError)

\* C20: getOKRTasks(id) makes exactly one request, a GET to
\* /api/tasks/?linked_to_okr={id}, never waits, and returns the payload of a
\* successful response unchanged.
C20_GetOKRTasks ==
    \A c \in CallIds :
        calls[c].op = "getOKRTasks"
            => /\ calls[c].nreq = 1
               /\ calls[c].waits = <<>>
               /\ calls[c].request.method = "GET"
               /\ calls[c].request.url.prefix = "/api/tasks/?linked_to_okr="
               /\ calls[c].request.url.ids = calls[c].args
               /\ calls[c].request.url.suffix = ""
               /\ (calls[c].retry.kind = "returned"
                     => calls[c].result = Returned(calls[c].retry.value))

\* getOKRTasks(42) returned the list it received from
\* /api/tasks/?linked_to_okr=42.
C20_Witness ==
    \E c \in CallIds :
        /\ calls[c].op = "getOKRTasks"
        /\ calls[c].args = <<42>>
        /\ calls[c].request.url = Url("/api/tasks/?linked_to_okr=", <<42>>, "")
        /\ calls[c].result = Returned(Arr(<<Num(1)>>))

(***************************************************************************)
(* Success after transient failures (checked under Spec).                  *)
(***************************************************************************)
\* C21: a retry-wrapped call whose attempt k succeeded has made exactly k
\* attempts and k-1 waits, the k-1 earlier attempts having failed with
\* transient errors, and has ended returning that attempt's response (for the
\* list reads: [] in place of a falsy one); none of the earlier errors is
\* raised.
C21_SuccessAtAttemptK ==
    \A c \in CallIds :
        (calls[c].op \in RetriedOps /\ calls[c].retry.kind = "returned")
            => /\ calls[c].nreq \in 1..retryCount
               /\ Len(calls[c].errs) = calls[c].nreq - 1
               /\ Len(calls[c].waits) = calls[c].nreq - 1
               /\ AllTransient(calls[c])
               /\ calls[c].pc = "returned"
               /\ calls[c].timer = 0
               /\ calls[c].result =
                     Returned(IF calls[c].op = "login"
                              THEN calls[c].retry.value
                              ELSE Or(calls[c].retry.value, Arr(<<>>)))

\* A login that returned the response of its third attempt after a network
\* error and a timeout.
C21_Witness ==
    \E c \in CallIds :
        /\ calls[c].op = "login"
        /\ calls[c].errs = <<NetworkError, TimeoutError>>
        /\ calls[c].nreq = 3
        /\ calls[c].waits = <<1000, 2000>>
        /\ calls[c].result = Returned(Arr(<<Num(1)>>))

(***************************************************************************)
(* Further properties of createOKR / updateOKR (checked under SpecOKR).    *)
(***************************************************************************)
\* C22: the body createOKR sends for a payload with a name and no title has
\* name equal to the payload's name.
C22_CreateKeepsNameWithoutTitle ==
    (/\ Sent("createOKR")
     /\ "name" \in DOMAIN okrData
     /\ "title" \notin DOMAIN okrData)
        => /\ "name" \in DOMAIN SentBody
           /\ SentBody["name"] = okrData["name"]

\* The keys of the payload other than the assignment fields.
OtherKeys == DOMAIN okrData \ {"assigned_users", "assigned_user_ids", "primary_user_id"}

\* The body has [] and null for the assignment fields.
AssignmentFieldsCleared ==
    /\ Get(SentBody, "assigned_user_ids") = Arr(<<>>)
    /\ Get(SentBody, "primary_user_id") = Null

\* C26 as stated: the body updateOKR sends for a payload without
\* assigned_users has assigned_user_ids = [] and primary_user_id = null,
\* whatever the payload gave for them, and every other key of the payload
\* unchanged.
C26_UpdateWithoutAssignedUsers ==
    (Sent("updateOKR") /\ "assigned_users" \notin DOMAIN okrData)
        => /\ AssignmentFieldsCleared
           /\ \A k \in OtherKeys :
                 k \in DOMAIN SentBody /\ SentBody[k] = okrData[k]

\* C26 amended: the body updateOKR sends for a payload without assigned_users
\* has assigned_user_ids = [] and primary_user_id = null, whatever the payload
\* gave for them; every other key of the payload except business_units is
\* sent unchanged, and business_units is never sent.
C26_UpdateWithoutAssignedUsersButUnits ==
    (Sent("updateOKR") /\ "assigned_users" \notin DOMAIN okrData)
        => /\ AssignmentFieldsCleared
           /\ \A k \in OtherKeys \ {"business_units"} :
                 k \in DOMAIN SentBody /\ SentBody[k] = okrData[k]
           /\ "business_units" \notin DOMAIN SentBody

\* A payload that gave assigned_user_ids [3], primary_user_id 3 and a
\* description, sent with [] and null and the description.
C26_Witness ==
    /\ Sent("updateOKR")
    /\ "assigned_users" \notin DOMAIN okrData
    /\ Get(okrData, "assigned_user_ids") = Arr(<<Num(3)>>)
    /\ Get(okrData, "primary_user_id") = Num(3)
    /\ Get(okrData, "description") = Str("Q3 goal")
    /\ AssignmentFieldsCleared
    /\ Get(SentBody, "description") = Str("Q3 goal")

(***************************************************************************)
(* Further properties of the OKRNode handlers (checked under SpecUI).      *)
(***************************************************************************)
\* The alerts a handler has shown.
AlertsBy(h) == {alerts[i].text : i \in {j \in 1..Len(alerts) : alerts[j].by = h}}

\* Requests to assign a user to an OKR dispatched through the API client.
AssignRequests ==
    {slot \in DOMAIN calls :
        calls[slot].op \in {"addUserToOKR", "setPrimaryUserForOKR"} /\ calls[slot].nreq >= 1}

\* C23: once handleContinueIteration has ended on a node with n >= 1 assigned
\* users after a successful createOKR whose assignment copies did not fail,
\* one assign-user request per assigned user has been dispatched and the
\* success alert has been shown (no assignment request can have failed where
\* none was dispatched).
C23_ContinueCopiesAssignments ==
    (/\ calls["handleContinueIteration"].result.kind = "returned"
     /\ Len(node.assignedUsers.v) >= 1
     /\ handlers["handleContinueIteration"] \in {"done", "caught"})
        => \/ /\ Cardinality(AssignRequests) = Len(node.assignedUsers.v)
              /\ "New iteration created successfully! Refresh to see changes."
                    \in AlertsBy("handleContinueIteration")
           \/ \E slot \in AssignRequests : calls[slot].result.kind = "raised"

\* C24: whenever handleContinueIteration has shown its failure alert, its
\* createOKR request has not been answered with success (no OKR was created
\* by it).
C24_FailureAlertMeansNothingCreated ==
    "Failed to create new iteration. Please try again."
            \in AlertsBy("handleContinueIteration")
        => calls["handleContinueIteration"].result.kind # "returned"

\* C27: the step in which handleEditOKR's updateOKR fails leaves the node
\* (form open, data, assignedUsers, isExpanded and the rest) and the page as
\* they were and shows the failure alert, nothing else; the form is closed
\* and the data object changed only in the step in which updateOKR succeeds.
C27_FailedEditLeavesNode ==
    [][/\ (calls["handleEditOKR"].pc = "inflight" /\ calls'["handleEditOKR"].pc = "raised")
            => /\ node' = node
               /\ page' = page
               /\ alerts' = Append(alerts, Alert("handleEditOKR",
                                                 "Failed to update OKR. Please try again."))
       /\ ((node.showEditOKRForm /\ ~node'.showEditOKRForm) \/ node'.data # node.data)
            => /\ calls["handleEditOKR"].pc = "inflight"
               /\ calls'["handleEditOKR"].pc = "returned"]_vars

\* After a failed update the form is still open on the unchanged OKR, with
\* the users assigned as before, and the failure alert is the only alert.
C27_Witness ==
    /\ calls["handleEditOKR"].result = Raised(HttpError)
    /\ handlers["handleEditOKR"] = "caught"
    /\ node.showEditOKRForm
    /\ node.isExpanded
    /\ node.data = NodeData
    /\ node.assignedUsers = Arr(<<AssignedUser(1, TRUE)>>)
    /\ alerts = <<Alert("handleEditOKR", "Failed to update OKR. Please try again.")>>

(***************************************************************************)
(* Properties of the task section (checked under SpecTasks).               *)
(***************************************************************************)
\* C25: at most one getOKRTasks request of the node is in flight at a time.
C25_OneFetchInFlight ==
    Cardinality({i \in FetchSlots : calls[i].pc = "inflight"}) <= 1

(***************************************************************************)
(* Properties of handleUpdateTask (checked under SpecPage).                *)
(***************************************************************************)
\* The task of the list with that id.
TaskWithId(tasks, id) ==
    LET hits == {k \in 1..Len(tasks.v) : Prop(tasks.v[k], "id") = Num(id)}
    IN  tasks.v[CHOOSE k \in hits : TRUE]

\* C28: the tasks list changes only in the step in which an updateTask call
\* succeeds, and then the updates are merged into exactly the task whose id is
\* taskId, every other task staying as it is; the step in which the call
\* fails leaves the list unchanged; and a successful update of a task that no
\* other successful update touches is reflected in the list, however the
\* invocations overlapped.
C28_UpdateTaskMergesOnSuccess ==
    [][/\ page'.tasks # page.tasks
            => \E i \in UpdateSlots :
                  calls[i].pc = "inflight" /\ calls'[i].pc = "returned"
       /\ \A i \in UpdateSlots :
            /\ (calls[i].pc = "inflight" /\ calls'[i].pc = "raised")
                  => page' = page
            /\ (calls[i].pc = "inflight" /\ calls'[i].pc = "returned")
                  => /\ Len(page'.tasks.v) = Len(page.tasks.v)
                     /\ \A k \in 1..Len(page.tasks.v) :
                           page'.tasks.v[k] =
                              IF page.tasks.v[k].v["id"] = Num(calls[i].args[1])
                              THEN Obj(Merge(page.tasks.v[k].v, calls[i].request.body.v))
                              ELSE page.tasks.v[k]
            /\ (/\ calls'[i].pc = "returned"
                /\ \A j \in UpdateSlots \ {i} :
                      calls'[j].pc = "returned" => calls'[j].args # calls'[i].args)
                  => \A key \in DOMAIN calls'[i].request.body.v :
                        TaskWithId(page'.tasks, calls'[i].args[1]).v[key]
                           = calls'[i].request.body.v[key]]_vars

\* Two updates of different tasks, both succeeded, both in the list.
C28_Witness ==
    /\ calls[1].pc = "returned" /\ calls[1].args = <<1>>
    /\ calls[2].pc = "returned" /\ calls[2].args = <<2>>
    /\ page.tasks = Arr(<<Obj([id |-> Num(1), status |-> Str("Completed")]),
                          Obj([id |-> Num(2), status |-> Str("Blocked")])>>)

====
